---- MODULE Spec2Model ----
(***************************************************************************)
(* Model of tricore-windows/src/flash.rs: an upload session that writes    *)
(* three files into a temporary directory, spawns Infineon Memtool on      *)
(* them, and offers wait(); dropping the session drops the TempDir, which   *)
(* removes the directory entry by entry and discards any error.            *)
(*                                                                         *)
(* Text is modelled as a sequence of lines (the string split at "\n"),     *)
(* each line a sequence of pieces whose concatenation is the line's bytes. *)
(* A text that ends in "\n" therefore ends in the empty line << >>.        *)
(* A file on disk is a text and the number of its leading bytes that were  *)
(* written: the whole text after a write that succeeded, fewer after one   *)
(* that failed part way.                                                   *)
(***************************************************************************)
EXTENDS FiniteSets, Integers, Sequences, TLC

VARIABLES
  pc,               \* position of the calling thread
  args,             \* arguments of the start call: ihex, halt_memtool, udas_port
  temporary_files,  \* path of the TempDir allocated by start, or NoDir
  dirs,             \* directories that exist on disk
  files,            \* files that exist on disk: path |-> content
  child,            \* the Memtool process
  argv,             \* arguments the process was spawned with
  spawnCount,       \* number of processes spawned
  log,              \* lines emitted with log::info!
  error,            \* context of the error returned by start, or NoError
  waitCalls,        \* number of calls of wait
  after,            \* where the thread goes on once the TempDir's drop is over
  cfgCalls          \* invocations of create_cfg on their own: port and output

vars == <<pc, args, temporary_files, dirs, files, child, argv, spawnCount,
          log, error, waitCalls, after, cfgCalls>>

\* ---- bounds ----
MaxPort == 10
MaxWaits == 2
MaxInvocations == 2
MaxPartial == 4

Ports == 0 .. MaxPort
Images == {"FAKE-HEX", ":00000001FF"}
Dirs == {"C:\\Temp\\.tmpA", "C:\\Temp\\.tmpB"}

NoDir == "<none>"
NoError == "<none>"
NoArgs == [ihex |-> "", halt_memtool |-> FALSE, udas_port |-> 0]

\* ---- paths ----
Sep == "\\"

PathJoin(dir, name) == <<dir, name>>

Display(path) == path[1] \o Sep \o path[2]

\* ---- create_cfg ----
CfgTemplate ==
  <<
    <<"[Main]">>,
    <<"Signature", "=", "UDE_TARGINFO_2.0">>,
    <<"MCUs", "=", "Controller0">>,
    <<"Description", "=", "Triboard with TC39x B-Step (DAS)">>,
    <<"Description1", "=", "Init TLF35584 C-Step on connect">>,
    <<"Description2", "=", "switch off FLASH error traps">>,
    <<"Architecture", "=", "TriCore Aurix2G">>,
    <<"Vendor", "=", "Starter Kits (DAS)">>,
    <<"Board", "=">>,
    <<>>,
    <<"[Controller0]">>,
    <<"Family", "=", "TriCore">>,
    <<"Type", "=", "TC39xB">>,
    <<"Enabled", "=", "1">>,
    <<"IntClock", "=", "100000">>,
    <<"ExtClock", "=", "20000">>,
    <<>>,
    <<"[Controller0.Core0]">>,
    <<"Protocol", "=", "TC2_JTAG">>,
    <<"Enabled", "=", "1">>,
    <<>>,
    <<"[Controller0.Core0.LoadedAddOn]">>,
    <<"UDEMemtool", "=", "1">>,
    <<>>,
    <<"[Controller0.Core0.Tc2CoreTargIntf]">>,
    <<"PortType", "=", "DAS">>,
    <<"CommDevSel", "=">>,
    <<"MaxJtagClk", "=", "5000">>,
    <<"DasTryStartSrv", "=", "1">>,
    <<"DasSrvPath", "=", "servers\\udas\\udas.exe">>,
    <<"ConnOption", "=", "Reset">>,
    <<"DiswdtOnReset", "=", "1">>,
    <<"ExecInitCmds", "=", "1">>,
    <<"TargetPort", "=", "Default">>,
    <<"CheckJtagId", "=", "1">>,
    <<"ScanJTAG", "=", "0">>,
    <<"Ocds1ViaPod", "=", "0">>,
    <<"EtksArbiterMode", "=", "None">>,
    <<"RefreshJtag", "=", "0">>,
    <<"RefreshHarr", "=", "0">>,
    <<"ReenableOcds", "=", "1">>,
    <<"ReduceJtagClock", "=", "0">>,
    <<"UseDap", "=", "0">>,
    <<"DapMode", "=", "2PIN">>,
    <<"SetDebugEnableAb1DisablePin", "=", "0">>,
    <<"ResetWaitTime", "=", "500">>,
    <<"ResetMode", "=", "Default">>,
    <<"OpenDrainReset", "=", "0">>,
    <<"ExecOnConnectCmds", "=", "0">>,
    <<"ExecOnExtRstCmds", "=", "0">>,
    <<"ResetPulseLen", "=", "10">>,
    <<"AddResetDelay", "=", "0">>,
    <<"ExecEmemInitOnReset", "=", "0x0">>,
    <<"UnlockInterface", "=", "0">>,
    <<"BootPasswd0", "=", "0x0">>,
    <<"BootPasswd1", "=", "0x0">>,
    <<"BootPasswd2", "=", "0x0">>,
    <<"BootPasswd3", "=", "0x0">>,
    <<"BootPasswd4", "=", "0x0">>,
    <<"BootPasswd5", "=", "0x0">>,
    <<"BootPasswd6", "=", "0x0">>,
    <<"BootPasswd7", "=", "0x0">>,
    <<"PasswordFile", "=">>,
    <<"HandleBmiHeader", "=", "0">>,
    <<"SetAutOkOnConnect", "=", "0">>,
    <<"DontUseWdtSusp", "=", "0">>,
    <<"InitCore0RamOnConnect", "=", "0">>,
    <<"IgnoreFailedHaltAfterResetOnConnect", "=", "0">>,
    <<"TrySystemResetAfterFailedHardwareReset", "=", "0">>,
    <<"RunStabilityTestOnConnect", "=", "0">>,
    <<"RunStabilityTestCycles", "=", "10">>,
    <<"IgnoreFailedEnableOcdsOnConnect", "=", "0">>,
    <<"UseLbistAwareConnect", "=", "0">>,
    <<"TC4InitCore0Ram", "=", "0">>,
    <<"EnableAutomaticCsrmStart", "=", "0">>,
    <<"EnableAutomaticCsrmRunControl", "=", "0">>,
    <<"MaxTry", "=", "1">>,
    <<"UseDflashAccessFilter", "=", "1">>,
    <<"DetectResetWhileHalted", "=", "1">>,
    <<"UseTranslateAddr", "=", "1">>,
    <<"DownloadToAllRams", "=", "0">>,
    <<"HaltAfterReset", "=", "0">>,
    <<"HaltAfterHardwareReset", "=", "0">>,
    <<"TargetAppHandshakeMode", "=", "None">>,
    <<"TargetAppHandshakeTimeout", "=", "100">>,
    <<"TargetAppHandshakeParameter0", "=", "0x0">>,
    <<"TargetAppHandshakeParameter1", "=", "0x0">>,
    <<"TargetAppHandshakeParameter2", "=", "0x0">>,
    <<"TargetAppHandshakeParameter3", "=", "0x0">>,
    <<"SimioAddr", "=", "g_JtagSimioAccess">>,
    <<"UseStmForPtm", "=", "1">>,
    <<"ExecOnStartCmds", "=", "0">>,
    <<"ExecOnHaltCmds", "=", "0">>,
    <<"ExecOnHaltCmdsWhileHaltedPeriod", "=", "0">>,
    <<"UseTriggerToBreak", "=", "1">>,
    <<"UseTL2OnHalt", "=", "1">>,
    <<"UseOstateStable", "=", "1">>,
    <<"AllowJtagResetWhileRunning", "=", "1">>,
    <<"MaxAccRetry", "=", "1">>,
    <<"AccRetryDelay", "=", "10">>,
    <<"DebugResetOnDisconnect", "=", "0">>,
    <<"ReadPmcsrWhileRunning", "=", "1">>,
    <<"IvIcacheOnHalt", "=", "1">>,
    <<"IvPlbOnHalt", "=", "1">>,
    <<"SuspendSlaveCores", "=", "0">>,
    <<"FilterMemAcc", "=", "1">>,
    <<"PtmRefClock", "=", "0">>,
    <<"DasDllPath", "=", "das_api.dll">>,
    <<"DasHost", "=">>,
    <<"DasStopSrv", "=", "1">>,
    <<"DasResetHelperBreakAddr", "=", "main">>,
    <<"DasResetMode", "=", "2">>,
    <<"DasRemoveLogFile", "=", "0">>,
    <<"DasForwardSerNum", "=", "0">>,
    <<"DasSrvSel", "=", "-1">>,
    <<"DasPortType", "=", "0">>,
    <<"DasPortSel", "=", "0">>,
    <<"DasCmdTimeout", "=", "1000">>,
    <<"DasWaitAfterConnect", "=", "0">>,
    <<"DasDisconnectSrv", "=", "0">>,
    <<"DasApiLogging", "=", "0">>,
    <<>>,
    <<"[Controller0.Core0.Tc2CoreTargIntf.InitScript]">>,
    <<"; Init TLF35584 C-Step on connect">>,
    <<"SET 0xF0036034  0x11100002">>,
    <<"SET 0xF0001E00  0x8">>,
    <<"SET 0xF0001E10  0x20003C04">>,
    <<"SET 0xF0001E04  0x1">>,
    <<"SET 0xF0001E14  0x14000000">>,
    <<"SET 0xF0001E24  0x501">>,
    <<"SET 0xF0001E48  0x00020000">>,
    <<"SET 0xF003AF10  0x98000000">>,
    <<"SET 0xF003AF14  0x10980000">>,
    <<"SET 0xF003AF40  0x30330333">>,
    <<"SET 0xF003AE10  0x10980000">>,
    <<"SET 0xF003AE40  0x33333033">>,
    <<"WAIT 5">>,
    <<"SET 0xF0001E54  0xFFF">>,
    <<"SET 0xF0001E60  0x17A10001">>,
    <<"SET 0xF0001E54 0x200">>,
    <<"WAIT 5">>,
    <<"SET 0xF0001E10  0x21003C04">>,
    <<"SET 0xF0001E64 0x8756">>,
    <<"WAIT 5">>,
    <<"SET 0xF0001E54 0x200">>,
    <<"WAIT 5">>,
    <<"SET 0xF0001E54 0x400">>,
    <<"SET 0xF0001E64 0x87DE">>,
    <<"WAIT 5">>,
    <<"SET 0xF0001E54 0x200">>,
    <<"WAIT 5">>,
    <<"SET 0xF0001E54 0x400">>,
    <<"SET 0xF0001E64 0x86AD">>,
    <<"WAIT 5">>,
    <<"SET 0xF0001E54 0x200">>,
    <<"WAIT 5">>,
    <<"SET 0xF0001E54 0x400">>,
    <<"SET 0xF0001E64 0x8625">>,
    <<"WAIT 5">>,
    <<"SET 0xF0001E54 0x200">>,
    <<"WAIT 5">>,
    <<"SET 0xF0001E54 0x400">>,
    <<"SET 0xF0001E64 0x8D27">>,
    <<"WAIT 5">>,
    <<"SET 0xF0001E54 0x200">>,
    <<"WAIT 5">>,
    <<"SET 0xF0001E54 0x400">>,
    <<"SET 0xF0001E64 0x8A01">>,
    <<"WAIT 5">>,
    <<"SET 0xF0001E54 0x200">>,
    <<"WAIT 5">>,
    <<"SET 0xF0001E54 0x400">>,
    <<"SET 0xF0001E64 0x87BE">>,
    <<"WAIT 5">>,
    <<"SET 0xF0001E54 0x200">>,
    <<"WAIT 5">>,
    <<"SET 0xF0001E54 0x400">>,
    <<"SET 0xF0001E64 0x8668">>,
    <<"WAIT 5">>,
    <<"SET 0xF0001E54 0x200">>,
    <<"WAIT 5">>,
    <<"SET 0xF0001E54 0x400">>,
    <<"SET 0xF0001E64 0x877D">>,
    <<"WAIT 5">>,
    <<"SET 0xF0001E54 0x200">>,
    <<"WAIT 5">>,
    <<"SET 0xF0001E54 0x400">>,
    <<"SET 0xF0001E64 0x8795">>,
    <<"WAIT 5">>,
    <<"SET 0xF0001E54 0x200">>,
    <<"WAIT 5">>,
    <<"SET 0xF0001E54 0x400">>,
    <<"WAIT 5">>,
    <<>>,
    <<"; switch off FLASH error traps">>,
    <<"set 0xF8801104 0x10000">>,
    <<"set 0xF8821104 0x10000">>,
    <<"set 0xF8841104 0x10000">>,
    <<"set 0xF8861104 0x10000">>,
    <<"set 0xF8881104 0x10000">>,
    <<"set 0xF88C1104 0x10000">>,
    <<"set 0xF8040048 0xC0000000">>,
    <<>>,
    <<"[Controller0.Core0.Tc2CoreTargIntf.OnStartScript]">>,
    <<>>,
    <<"[Controller0.Core0.Tc2CoreTargIntf.OnHaltScript]">>,
    <<>>,
    <<"[Controller0.Core0.Tc2CoreTargIntf.Suspend]">>,
    <<"STM0", "=", "1">>,
    <<"STM1", "=", "1">>,
    <<"STM2", "=", "1">>,
    <<"STM3", "=", "1">>,
    <<"STM4", "=", "1">>,
    <<"STM5", "=", "1">>,
    <<>>,
    <<"[Controller0.PFLASH]">>,
    <<"Enabled", "=", "1">>,
    <<"EnableMemtoolByDefault", "=", "1">>,
    <<>>,
    <<"[Controller0.DF_EEPROM]">>,
    <<"Enabled", "=", "1">>,
    <<"EnableMemtoolByDefault", "=", "1">>,
    <<>>,
    <<"[Controller0.DF_UCBS]">>,
    <<"Enabled", "=", "1">>,
    <<"EnableMemtoolByDefault", "=", "1">>,
    <<>>,
    <<>>,
    <<"[Controller0.Core0.Tc2CoreTargIntf.OnConnectScript]">>
  >>

create_cfg(udas_port) == CfgTemplate

\* ---- the batch script of start ----
mtb_swapped(halt_memtool, input_hex_path) ==
  IF halt_memtool
    THEN << <<"connect">>,
            <<"open_file ", Display(input_hex_path)>>,
            <<"select_all_sections">>,
            <<"add_selected_sections">>,
            <<"program">>,
            <<"disconnect">>,
            <<"exit">> >>
    ELSE << <<"connect">>,
            <<"open_file ", Display(input_hex_path)>>,
            << >> >>

mtb(halt_memtool, input_hex_path) ==
  IF ~halt_memtool
    THEN << <<"connect">>,
            <<"open_file ", Display(input_hex_path)>>,
            <<"select_all_sections">>,
            <<"add_selected_sections">>,
            <<"program">>,
            <<"disconnect">>,
            <<"exit">> >>
    ELSE << <<"connect">>,
            <<"open_file ", Display(input_hex_path)>>,
            << >> >>

\* ---- the argument vector of the process ----
process_args_swapped(temporary_memtool_config_path, batch_file_path) ==
  <<"-c", Display(batch_file_path), Display(temporary_memtool_config_path)>>

process_args(temporary_memtool_config_path, batch_file_path) ==
  <<"-c", Display(temporary_memtool_config_path), Display(batch_file_path)>>

\* ---- the disk ----
StartFiles == {"input.hex", "temp_config.cfg", "batch.mtb"}

ChildFile == "memtool.tmp"

WriteFile(fs, path, content) ==
  [p \in DOMAIN fs \cup {path} |-> IF p = path THEN content ELSE fs[p]]

\* The number of bytes of a line and of a text ("\n" between the lines).
RECURSIVE LineBytes(_)
LineBytes(line) ==
  IF line = << >> THEN 0 ELSE Len(Head(line)) + LineBytes(Tail(line))

RECURSIVE RangeBytes(_, _, _)
RangeBytes(text, lo, hi) ==
  IF lo = hi THEN LineBytes(text[lo])
  ELSE LET mid == (lo + hi) \div 2
       IN  RangeBytes(text, lo, mid) + RangeBytes(text, mid + 1, hi)

TextBytes(text) ==
  IF text = << >> THEN 0
  ELSE RangeBytes(text, 1, Len(text)) + (Len(text) - 1)

\* A file holding the whole of a text.
Whole(content) == [text |-> content, bytes |-> TextBytes(content)]

\* What a write that fails after the file was created can leave behind:
\* any proper prefix of the bytes of the content, the empty file included.
Partial(content) ==
  LET size == TextBytes(content)
  IN  {[text |-> content, bytes |-> n] :
         n \in (0 .. (IF size - 1 < MaxPartial THEN size - 1 ELSE MaxPartial))
                 \cup (IF size > 0 THEN {size - 1} ELSE {})}

\* std::fs::write: the file is created and the content written; either the
\* creation fails and there is no file, or the writing fails and the file
\* is left with part of the content, or both succeed.
fs_write(fs, path, content) ==
  {[ok |-> TRUE, disk |-> WriteFile(fs, path, Whole(content))]}
    \cup {[ok |-> FALSE, disk |-> fs]}
    \cup {[ok |-> FALSE, disk |-> WriteFile(fs, path, part)] :
            part \in Partial(content)}

RemoveFile(fs, path) == [p \in DOMAIN fs \ {path} |-> fs[p]]

Entries(fs, dir) == {p \in DOMAIN fs : p[1] = dir}

\* Dropping a std::process::Child neither kills nor waits for the process.
DropChild_kill(c) == IF c = "running" THEN "exited_fail" ELSE c

DropChild(c) == c

\* Drop of MemtoolUpload: the fields are dropped in declaration order, the
\* Child first, then the TempDir, whose removal starts here.
DropSession(next) ==
  /\ child' = DropChild(child)
  /\ pc' = "drop"
  /\ after' = next
  /\ UNCHANGED <<dirs, files>>

\* output.success() of the exit status
success_always(c) == TRUE

success(c) == c = "exited_ok"

Init ==
  /\ pc = "init"
  /\ args = NoArgs
  /\ temporary_files = NoDir
  /\ dirs = {}
  /\ files = << >>
  /\ child = "none"
  /\ argv = << >>
  /\ spawnCount = 0
  /\ log = << >>
  /\ error = NoError
  /\ waitCalls = 0
  /\ after = "none"
  /\ cfgCalls = << >>

\* The `?` of start: the error gets its context and the local
\* temporary_files is dropped before start returns it.
StartFails(context, disk) ==
  /\ pc' = "drop"
  /\ after' = "failed"
  /\ error' = context
  /\ files' = disk
  /\ UNCHANGED <<args, temporary_files, dirs, child, argv, spawnCount,
                 log, waitCalls, cfgCalls>>

\* start, step 1: TempDir::new()
TempDirNew ==
  /\ pc = "init"
  /\ \E ihex \in Images, halt_memtool \in BOOLEAN, udas_port \in Ports :
       args' = [ihex |-> ihex, halt_memtool |-> halt_memtool,
                udas_port |-> udas_port]
  /\ \E ok \in BOOLEAN :
       IF ok
         THEN /\ \E d \in Dirs \ dirs :
                   /\ temporary_files' = d
                   /\ dirs' = dirs \cup {d}
              /\ pc' = "hex"
              /\ UNCHANGED error
         ELSE /\ pc' = "failed"
              /\ error' = "Cannot create temporary directory for memtool input"
              /\ UNCHANGED <<temporary_files, dirs>>
  /\ UNCHANGED <<files, child, argv, spawnCount, log, waitCalls, after, cfgCalls>>

\* start, step 2: std::fs::write(&input_hex_path, ihex)
WriteHex ==
  /\ pc = "hex"
  /\ \E r \in fs_write(files,
       PathJoin(temporary_files, "input.hex"),
       << <<args.ihex>> >>) :
       IF r.ok
         THEN /\ files' = r.disk
              /\ pc' = "cfg"
              /\ UNCHANGED <<args, temporary_files, dirs, child, argv,
                             spawnCount, log, error, waitCalls, after, cfgCalls>>
         ELSE StartFails("Cannot write create temporary input hex file", r.disk)

\* start, step 3: std::fs::write(&temporary_memtool_config_path, create_cfg(udas_port))
WriteCfg ==
  /\ pc = "cfg"
  /\ \E r \in fs_write(files,
       PathJoin(temporary_files, "temp_config.cfg"),
       create_cfg(args.udas_port)) :
       IF r.ok
         THEN /\ files' = r.disk
              /\ pc' = "batch"
              /\ UNCHANGED <<args, temporary_files, dirs, child, argv,
                             spawnCount, log, error, waitCalls, after, cfgCalls>>
         ELSE StartFails("Cannot write create temporary memtool configuration file", r.disk)

\* start, step 4: std::fs::write(&batch_file_path, mtb)
WriteBatch ==
  /\ pc = "batch"
  /\ \E r \in fs_write(files,
       PathJoin(temporary_files, "batch.mtb"),
       mtb(args.halt_memtool,
       PathJoin(temporary_files, "input.hex"))) :
       IF r.ok
         THEN /\ files' = r.disk
              /\ pc' = "spawn"
              /\ UNCHANGED <<args, temporary_files, dirs, child, argv,
                             spawnCount, log, error, waitCalls, after, cfgCalls>>
         ELSE StartFails("Cannot create temporary memtool batch file", r.disk)

\* start, step 5: process.spawn(), the log line and the returned session
SpawnAt(places) ==
  /\ pc \in places
  /\ \E ok \in BOOLEAN :
       IF ok
         THEN /\ child' = "running"
              /\ argv' = process_args(PathJoin(temporary_files, "temp_config.cfg"),
                                      PathJoin(temporary_files, "batch.mtb"))
              /\ spawnCount' = spawnCount + 1
              /\ log' = Append(log, "Spawned Infineon Memtool to flash HEX file!")
              /\ pc' = "held"
              /\ UNCHANGED <<args, temporary_files, dirs, files, error,
                             waitCalls, after, cfgCalls>>
         ELSE StartFails("Could not start memtool to flash device", files)

Spawn_early == SpawnAt({"batch", "spawn"})

Spawn == SpawnAt({"spawn"})

\* The Memtool process terminates on its own, with or without success.
ChildExit ==
  /\ child = "running"
  /\ \E c \in {"exited_ok", "exited_fail"} : child' = c
  /\ UNCHANGED <<pc, args, temporary_files, dirs, files, argv, spawnCount,
                 log, error, waitCalls, after, cfgCalls>>

\* wait is called: the thread blocks in self.spawned.wait()
WaitCall ==
  /\ pc = "held"
  /\ waitCalls < MaxWaits
  /\ pc' = "waiting"
  /\ waitCalls' = waitCalls + 1
  /\ UNCHANGED <<args, temporary_files, dirs, files, child, argv, spawnCount,
                 log, error, after, cfgCalls>>

\* self.spawned.wait() returns Ok(output): assert!(output.success()), log
WaitExit ==
  /\ pc = "waiting"
  /\ child \in {"exited_ok", "exited_fail"}
  /\ IF success(child)
       THEN /\ pc' = "held"
            /\ log' = Append(log, "Infineon Memtool terminated successfully")
       ELSE /\ pc' = "panicked"
            /\ UNCHANGED log
  /\ UNCHANGED <<args, temporary_files, dirs, files, child, argv, spawnCount,
                 error, waitCalls, after, cfgCalls>>

\* self.spawned.wait() returns Err: .expect(..) panics
WaitError ==
  /\ pc = "waiting"
  /\ pc' = "panicked"
  /\ UNCHANGED <<args, temporary_files, dirs, files, child, argv, spawnCount,
                 log, error, waitCalls, after, cfgCalls>>

\* The caller lets go of the session.
Release ==
  /\ pc = "held"
  /\ DropSession("released")
  /\ UNCHANGED <<args, temporary_files, argv, spawnCount, log, error,
                 waitCalls, cfgCalls>>

\* A panic that unwinds drops the session on its way; one that aborts
\* leaves the state as it is.
Unwind ==
  /\ pc = "panicked"
  /\ DropSession("unwound")
  /\ UNCHANGED <<args, temporary_files, argv, spawnCount, log, error,
                 waitCalls, cfgCalls>>

\* TempDir::drop, remove_dir_all: one entry of the directory is unlinked;
\* a failure ends the removal and is discarded.
RemoveEntry ==
  /\ pc = "drop"
  /\ \E p \in Entries(files, temporary_files), ok \in BOOLEAN :
       IF ok
         THEN /\ files' = RemoveFile(files, p)
              /\ UNCHANGED pc
         ELSE /\ pc' = after
              /\ UNCHANGED files
  /\ UNCHANGED <<args, temporary_files, dirs, child, argv, spawnCount, log,
                 error, waitCalls, after, cfgCalls>>

\* TempDir::drop, remove_dir_all: with the entries written by start
\* unlinked the directory itself is removed, which fails when it is not
\* empty; the result is discarded and the drop is over.
RemoveDir ==
  /\ pc = "drop"
  /\ \A name \in StartFiles : PathJoin(temporary_files, name) \notin DOMAIN files
  /\ \E ok \in BOOLEAN :
       IF ok /\ Entries(files, temporary_files) = {}
         THEN dirs' = dirs \ {temporary_files}
         ELSE UNCHANGED dirs
  /\ pc' = after
  /\ UNCHANGED <<args, temporary_files, files, child, argv, spawnCount, log,
                 error, waitCalls, after, cfgCalls>>

\* The running Memtool process creates a file of its own in the directory.
ChildCreate ==
  /\ child = "running"
  /\ temporary_files \in dirs
  /\ PathJoin(temporary_files, ChildFile) \notin DOMAIN files
  /\ files' = WriteFile(files, PathJoin(temporary_files, ChildFile),
                        Whole(<< <<ChildFile>> >>))
  /\ UNCHANGED <<pc, args, temporary_files, dirs, child, argv, spawnCount,
                 log, error, waitCalls, after, cfgCalls>>

Next ==
  \/ TempDirNew
  \/ WriteHex
  \/ WriteCfg
  \/ WriteBatch
  \/ Spawn
  \/ ChildExit
  \/ WaitCall
  \/ WaitExit
  \/ WaitError
  \/ Release
  \/ Unwind
  \/ RemoveEntry
  \/ RemoveDir
  \/ ChildCreate

Spec == Init /\ [][Next]_vars

\* ---- create_cfg on its own ----
CfgInvoke ==
  /\ Len(cfgCalls) < MaxInvocations
  /\ \E udas_port \in Ports :
       cfgCalls' = Append(cfgCalls, [port |-> udas_port,
                                     out |-> create_cfg(udas_port)])
  /\ UNCHANGED <<pc, args, temporary_files, dirs, files, child, argv,
                 spawnCount, log, error, waitCalls, after>>

NextCfg == CfgInvoke

SpecCfg == Init /\ [][NextCfg]_vars

\* ---- vocabulary of the properties ----
input_hex_path == PathJoin(temporary_files, "input.hex")
temporary_memtool_config_path == PathJoin(temporary_files, "temp_config.cfg")
batch_file_path == PathJoin(temporary_files, "batch.mtb")

WorkspaceFiles == {input_hex_path, temporary_memtool_config_path, batch_file_path}

WorkspaceOnDisk == temporary_files \in dirs /\ WorkspaceFiles \subseteq DOMAIN files

WorkspaceGone ==
  /\ temporary_files \notin dirs
  /\ \A p \in DOMAIN files : p[1] # temporary_files

Dropped(next) == pc = next \/ (pc = "drop" /\ after = next)

SessionLive == pc \in {"held", "waiting", "panicked"}

SpawnedLine == "Spawned Infineon Memtool to flash HEX file!"
SuccessLine == "Infineon Memtool terminated successfully"

Digit(d) == <<"0", "1", "2", "3", "4", "5", "6", "7", "8", "9">>[d + 1]

RECURSIVE Decimal(_)
Decimal(n) == IF n < 10 THEN Digit(n) ELSE Decimal(n \div 10) \o Digit(n % 10)

\* the lines of a text as str::lines yields them: a final "\n" ends the last line
Lines(text) ==
  IF Len(text) > 0 /\ text[Len(text)] = << >>
    THEN SubSeq(text, 1, Len(text) - 1)
    ELSE text

\* the file at a path holds the whole of its text
Complete(path) ==
  path \in DOMAIN files /\ files[path].bytes = TextBytes(files[path].text)

HasKey(line, key) == \E i \in 1 .. Len(line) : line[i] = key

PortLines(text, port) ==
  {k \in 1 .. Len(text) : text[k] = <<"DasPortSel", "=", Decimal(port)>>}

KeyLines(text, key) == {k \in 1 .. Len(text) : HasKey(text[k], key)}

DiffLines(a, b) ==
  {k \in 1 .. Len(a) : k > Len(b) \/ a[k] # b[k]}
    \cup {k \in 1 .. Len(b) : k > Len(a)}

\* C1: whenever the Memtool process is alive, the workspace directory and
\* its three files still exist on disk.
C1_WorkspaceOutlivesChild == child = "running" => WorkspaceOnDisk

\* C2: the configuration written to temp_config.cfg for udas_port = p has
\* exactly one line DasPortSel=<p> and no other line with the key DasPortSel.
C2_PortSubstituted ==
  (pc \in {"batch", "spawn", "held", "waiting", "panicked"}) =>
    LET text == files[temporary_memtool_config_path].text
    IN  /\ Complete(temporary_memtool_config_path)
        /\ Cardinality(PortLines(text, args.udas_port)) = 1
        /\ Cardinality(KeyLines(text, "DasPortSel")) = 1

\* C3: when start has returned an error there is no session, no process,
\* and neither the workspace directory nor any file in it is left on disk;
\* a session exists only with the directory, the three files and the
\* process all produced and no error.
C3_FailedStartLeavesNothing ==
  /\ pc = "failed" =>
       /\ error # NoError
       /\ child = "none"
       /\ spawnCount = 0
       /\ dirs = {}
       /\ DOMAIN files = {}
  /\ SessionLive =>
       /\ error = NoError
       /\ WorkspaceOnDisk
       /\ child # "none"

\* C4: wait returns normally only when the process has exited with success,
\* and then logs the success line; when the process has exited without
\* success, wait ends in a panic; a wait that panics logs nothing.
C4_WaitOutcome ==
  [][/\ (pc = "waiting" /\ pc' = "held") =>
          /\ child = "exited_ok"
          /\ log' = Append(log, SuccessLine)
     /\ (pc = "waiting" /\ child = "exited_fail" /\ pc' # pc) => pc' = "panicked"
     /\ (pc = "waiting" /\ pc' = "panicked") => log' = log
     /\ (Len(log') > Len(log) /\ log'[Len(log')] = SuccessLine) =>
          (pc = "waiting" /\ child = "exited_ok")
    ]_vars

C4_Witness == pc = "panicked" /\ child = "exited_fail"

\* C5: releasing the session leaves the Memtool process as it was.
C5_ReleaseKeepsChild ==
  [][/\ (pc = "held" /\ pc' # "held" /\ pc' # "waiting") =>
          (Dropped("released")' /\ child' = child)
     /\ (child' # child /\ child # "none") =>
          (child = "running" /\ pc' = pc /\ files' = files /\ dirs' = dirs)
    ]_vars

C5_Witness == pc = "released" /\ child = "running" /\ waitCalls = 0

\* C6: once the session is released, with or without a wait before, the
\* workspace directory and its files are gone and no error was surfaced.
C6_ReleasedWorkspaceGone ==
  pc = "released" => (WorkspaceGone /\ DOMAIN files = {} /\ error = NoError)

\* C7: batch.mtb holds exactly the seven commands of a full programming run
\* when halt_memtool is false and exactly connect and open_file when it is
\* true, and the path it names is that of the input.hex written by start.
C7_BatchScript ==
  (pc \in {"spawn", "held", "waiting", "panicked"}) =>
    /\ batch_file_path \in DOMAIN files
    /\ input_hex_path \in DOMAIN files
    /\ Complete(input_hex_path)
    /\ files[input_hex_path].text = << <<args.ihex>> >>
    /\ Complete(batch_file_path)
    /\ Lines(files[batch_file_path].text) =
         IF args.halt_memtool
           THEN << <<"connect">>,
                   <<"open_file ", temporary_files \o "\\input.hex">> >>
           ELSE << <<"connect">>,
                   <<"open_file ", temporary_files \o "\\input.hex">>,
                   <<"select_all_sections">>,
                   <<"add_selected_sections">>,
                   <<"program">>,
                   <<"disconnect">>,
                   <<"exit">> >>

C7_Witness ==
  /\ pc = "held"
  /\ args.halt_memtool
  /\ batch_file_path \in DOMAIN files

\* C8: a start that returned a session has spawned exactly one process,
\* with the arguments -c, the path of temp_config.cfg and the path of
\* batch.mtb, in that order, both inside the session's workspace.
C8_ArgumentVector ==
  (SessionLive \/ Dropped("released") \/ Dropped("unwound")) =>
    /\ spawnCount = 1
    /\ temporary_files \in Dirs
    /\ argv = <<"-c",
                temporary_files \o "\\temp_config.cfg",
                temporary_files \o "\\batch.mtb">>

C8_Witness == pc = "held" /\ spawnCount = 1 /\ Len(argv) = 3

\* C9: two outputs of create_cfg are equal for equal ports, and for
\* different ports they differ in the DasPortSel line and in no other line.
C9_OnlyPortLineDiffers ==
  \A i, j \in 1 .. Len(cfgCalls) :
    IF cfgCalls[i].port = cfgCalls[j].port
      THEN cfgCalls[i].out = cfgCalls[j].out
      ELSE /\ DiffLines(cfgCalls[i].out, cfgCalls[j].out) # {}
           /\ DiffLines(cfgCalls[i].out, cfgCalls[j].out)
                = KeyLines(cfgCalls[i].out, "DasPortSel")

\* C10: batch.mtb is on disk only with input.hex written before it; the
\* process is spawned only when input.hex, temp_config.cfg and batch.mtb
\* are all on disk; a start that failed has spawned nothing and takes no
\* further step.
C10_StepOrder ==
  /\ [](Dropped("failed") => (child = "none" /\ spawnCount = 0))
  /\ [][/\ (batch_file_path \notin DOMAIN files
               /\ batch_file_path \in DOMAIN files') =>
              input_hex_path \in DOMAIN files
        /\ (spawnCount' # spawnCount \/ (child = "none" /\ child' # "none")) =>
              /\ WorkspaceOnDisk
              /\ error = NoError
              /\ \A p \in WorkspaceFiles : Complete(p)
              /\ files[input_hex_path].text = << <<args.ihex>> >>
              /\ Len(files[temporary_memtool_config_path].text) = Len(CfgTemplate)
              /\ files[batch_file_path].text[1] = <<"connect">>
              /\ Len(files[batch_file_path].text) \in {3, 7}
        /\ Dropped("failed") =>
              /\ Dropped("failed")'
              /\ DOMAIN files' \subseteq DOMAIN files
              /\ UNCHANGED <<child, argv, log, error>>
       ]_vars

C10_Witness ==
  /\ pc = "held"
  /\ child = "running"
  /\ waitCalls = 0
  /\ WorkspaceOnDisk
====
